---- MODULE Spec2Model ----
(***************************************************************************)
(* Model of src/electron/ipc/events/downloads.js: one startDownload        *)
(* closure (its totals, streams, temporary files and throttled update      *)
(* channel), the process-wide activeDownloads registry, the receiver of    *)
(* the add-download / update-download messages and cancelDownload.         *)
(*                                                                         *)
(* Sizes and progress are counted in abstract byte units.  The speed field *)
(* is kept in quarter units (the code divides by 4) so that it stays an    *)
(* integer.                                                                *)
(***************************************************************************)
EXTENDS Integers, FiniteSets, Sequences, TLC

\* ---------------------------------------------------------------- bounds
MaxStreams == 2
MaxBytes == 1
MaxTime == 2
MaxTitleLen == 3

\* ------------------------------------------------------------- constants
downloadId == "d1"
unknownId == "d0"
DownloadIds == {downloadId, unknownId}
Streams == 1..MaxStreams
Bytes == 0..MaxBytes
destinationFile == "destinationFile"
NoPatch == [none |-> TRUE]

\* Characters of a title: the ten characters the end handler replaces, the
\* space and two ordinary characters.  A title is a sequence of characters.
Forbidden == {"/", "\\", "?", "%", "*", ":", "|", "\"", "<", ">"}
Alphabet == Forbidden \cup {" ", "a", "b"}
Titles == UNION {[1..n -> Alphabet] : n \in 0..MaxTitleLen}
ExampleTitle == <<"M", "y", "/", "/", "V", "i", "d", "e", "o", ":", " ", " ",
                  "P", "a", "r", "t", "*", "1">>
ExampleFiltered == <<"M", "y", " ", "V", "i", "d", "e", "o", " ",
                     "P", "a", "r", "t", " ", "1">>

VARIABLES
    activeDownloads,        \* keys of the registry object
    download,               \* the receiver's record of the download
    pending,                \* patch held by the throttled update channel
    sources,                \* sources.length
    totalProgress,
    totalSize,
    done,
    sourceStreams,          \* state of each ytdl stream
    destroyed,              \* streams on which destroy was called
    lastProgress,
    lastSize,
    lastProgressTimestamp,
    files,                  \* temporary files present on disk
    encoder,                \* state of the convert / merge promise
    operation,              \* encoder method invoked
    now,                    \* Date.now()
    title,                  \* video.title
    filteredTitle,          \* title part of the destination file name
    reply                   \* last command acknowledged

vars == <<activeDownloads, download, pending, sources, totalProgress, totalSize,
          done, sourceStreams, destroyed, lastProgress, lastSize,
          lastProgressTimestamp, files, encoder, operation, now, title,
          filteredTitle, reply>>

closure == <<sources, totalProgress, totalSize, done, lastProgress, lastSize,
             lastProgressTimestamp, title, filteredTitle, operation>>

\* ------------------------------------------------------- pure operators
SumTo(f, n) == IF n = 0 THEN 0 ELSE LET S[i \in 0..n] == IF i = 0 THEN 0 ELSE S[i-1] + f[i] IN S[n]

\* The receiver merges the props of an update-download into its record.
Merge(d, p) == [k \in (DOMAIN d) \cup (DOMAIN p) |-> IF k \in DOMAIN p THEN p[k] ELSE d[k]]

\* The last status handed to the update channel (published or still held).
Status == IF "status" \in DOMAIN pending THEN pending.status
          ELSE IF "status" \in DOMAIN download THEN download.status ELSE "none"

\* stream.destroy(reason)
Destroy(st, reason) ==
    IF st = "flowing"
    THEN IF reason = "cancelled" THEN "cancelling" ELSE "destroyed"
    ELSE st

\* destiantions.forEach(fs.unlinkSync): unlinkSync throws on a missing file,
\* which stops the loop.
FirstMissing == IF \E i \in 1..sources : i \notin files
                THEN CHOOSE i \in 1..sources : i \notin files /\ \A j \in 1..(i-1) : j \in files
                ELSE sources + 1
UnlinkThrows == FirstMissing <= sources
UnlinkAll == {i \in files : i >= FirstMissing}

\* video.title.replace(/[/\\?%*:|"<>]/g, ' ')
ReplaceForbidden(t) == [k \in 1..Len(t) |-> IF t[k] \in Forbidden THEN " " ELSE t[k]]

\* .replace(/ +/g, ' '): every run of spaces becomes one space
RECURSIVE CollapseSpaces(_)
CollapseSpaces(t) ==
    IF Len(t) <= 1 THEN t
    ELSE IF t[1] = " " /\ t[2] = " " THEN CollapseSpaces(Tail(t))
    ELSE <<t[1]>> \o CollapseSpaces(Tail(t))

\* Faulty variant: the runs of spaces are left as they are
FilterTitle_NoCollapse(t) == ReplaceForbidden(t)

FilterTitle(t) == CollapseSpaces(ReplaceForbidden(t))

\* ------------------------------------------------------------- messages
\* update = throttleEvent(...): a call replaces the patch the channel holds;
\* the held patch is sent when the throttling window elapses (Publish).
Update(props) == pending' = props

AddDownload == [status |-> "progress", size |-> 1, speed |-> 0, progress |-> 0,
                startTimestamp |-> now]

\* ---------------------------------------------------------------- Init
InitDownloads ==
    /\ activeDownloads = {}
    /\ download = NoPatch
    /\ pending = NoPatch
    /\ sources = 0
    /\ totalProgress = 0
    /\ totalSize = 0
    /\ done = 0
    /\ sourceStreams = [i \in Streams |-> "none"]
    /\ destroyed = {}
    /\ lastProgress = [i \in Streams |-> 0]
    /\ lastSize = [i \in Streams |-> 0]
    /\ lastProgressTimestamp = [i \in Streams |-> 0]
    /\ files = {}
    /\ encoder = "idle"
    /\ operation = "none"
    /\ now = 1
    /\ filteredTitle = <<>>
    /\ reply = [cmd |-> "none", id |-> "none", result |-> "none"]

Init ==
    /\ InitDownloads
    /\ title = ExampleTitle

\* -------------------------------------------------------------- actions
\* startDownload: add-download, one stream and one temporary file per source,
\* registration of the cancel handle.
StartDownload(n) ==
    /\ downloadId \notin activeDownloads
    /\ download' = AddDownload
    /\ pending' = NoPatch
    /\ sources' = n
    /\ totalProgress' = 0
    /\ totalSize' = 0
    /\ done' = 0
    /\ sourceStreams' = [i \in Streams |-> IF i <= n THEN "flowing" ELSE "none"]
    /\ destroyed' = {}
    /\ lastProgress' = [i \in Streams |-> 0]
    /\ lastSize' = [i \in Streams |-> 0]
    /\ lastProgressTimestamp' = [i \in Streams |-> 0]
    /\ files' = 1..n
    /\ activeDownloads' = activeDownloads \cup {downloadId}
    /\ reply' = [cmd |-> "startDownload", id |-> downloadId, result |-> "ok"]
    /\ filteredTitle' = <<>>
    /\ UNCHANGED <<encoder, operation, now, title>>

\* Faulty variant: the progress total grows by the absolute progress instead of the delta
ProgressPatch_Absolute(i, progress, size) ==
    [progress |-> totalProgress + progress,
     speed |-> (lastProgress[i] + progress) * (now - lastProgressTimestamp[i]),
     size |-> (totalSize - lastSize[i]) + size]

\* Faulty variant: the stream's previous progress is taken out of the size total
ProgressPatch_WrongLast(i, progress, size) ==
    [progress |-> totalProgress + (progress - lastProgress[i]),
     speed |-> (lastProgress[i] + progress) * (now - lastProgressTimestamp[i]),
     size |-> (totalSize - lastProgress[i]) + size]

\* Faulty variant: the stream's previous size is not taken out of the size total
ProgressPatch_KeepOldSize(i, progress, size) ==
    [progress |-> totalProgress + (progress - lastProgress[i]),
     speed |-> (lastProgress[i] + progress) * (now - lastProgressTimestamp[i]),
     size |-> totalSize + size]

\* sourceStream.on('progress')
ProgressPatch(i, progress, size) ==
    [progress |-> totalProgress + (progress - lastProgress[i]),
     speed |-> (lastProgress[i] + progress) * (now - lastProgressTimestamp[i]),
     size |-> (totalSize - lastSize[i]) + size]

OnProgress(i, progress, size) ==
    /\ sourceStreams[i] = "flowing"
    /\ totalProgress' = ProgressPatch(i, progress, size).progress
    /\ totalSize' = ProgressPatch(i, progress, size).size
    /\ Update(ProgressPatch(i, progress, size))
    /\ lastSize' = [lastSize EXCEPT ![i] = size]
    /\ lastProgress' = [lastProgress EXCEPT ![i] = progress]
    /\ lastProgressTimestamp' = [lastProgressTimestamp EXCEPT ![i] = now]
    /\ UNCHANGED <<activeDownloads, download, sources, done, sourceStreams,
                   destroyed, files, encoder, operation, now, title, filteredTitle,
                   reply>>

\* A stream emits progress(_, bytesTotalSoFar, estimatedSize): the bytes so far
\* never go down within one stream and never exceed the estimated size, which
\* may itself go up or down.
StreamProgress(i) ==
    \E progress \in Bytes : \E size \in Bytes :
        /\ lastProgress[i] <= progress
        /\ progress <= size
        /\ OnProgress(i, progress, size)

\* Faulty variant: the convert patch publishes the running progress total
ConvertPatch_Unfrozen == [progress |-> totalProgress, size |-> totalSize, status |-> "convert"]

\* sourceStream.on('end')
ConvertPatch == [progress |-> totalSize, size |-> totalSize, status |-> "convert"]

\* Faulty variant: the end handler starts the conversion one end too early
OnEnd_OffByOne(i) ==
    /\ sourceStreams[i] = "flowing"
    /\ sourceStreams' = [sourceStreams EXCEPT ![i] = "ended"]
    /\ done' = done + 1
    /\ IF done + 1 = sources - 1
       THEN /\ Update(ConvertPatch)
            /\ filteredTitle' = FilterTitle(title)
            /\ operation' = IF sources = 1 THEN "convert" ELSE "merge"
            /\ encoder' = "pending"
       ELSE UNCHANGED <<pending, filteredTitle, operation, encoder>>
    /\ UNCHANGED <<activeDownloads, download, sources, totalProgress, totalSize,
                   destroyed, lastProgress, lastSize, lastProgressTimestamp,
                   files, now, title, reply>>

\* Faulty variant: the end handler starts the conversion at every end
OnEnd_EveryEnd(i) ==
    /\ sourceStreams[i] = "flowing"
    /\ sourceStreams' = [sourceStreams EXCEPT ![i] = "ended"]
    /\ done' = done + 1
    /\ Update(ConvertPatch)
    /\ filteredTitle' = FilterTitle(title)
    /\ operation' = IF sources = 1 THEN "convert" ELSE "merge"
    /\ encoder' = "pending"
    /\ UNCHANGED <<activeDownloads, download, sources, totalProgress, totalSize,
                   destroyed, lastProgress, lastSize, lastProgressTimestamp,
                   files, now, title, reply>>

OnEnd(i) ==
    /\ sourceStreams[i] = "flowing"
    /\ sourceStreams' = [sourceStreams EXCEPT ![i] = "ended"]
    /\ done' = done + 1
    /\ IF done + 1 = sources
       THEN /\ Update(ConvertPatch)
            /\ filteredTitle' = FilterTitle(title)
            /\ operation' = IF sources = 1 THEN "convert" ELSE "merge"
            /\ encoder' = "pending"
       ELSE UNCHANGED <<pending, filteredTitle, operation, encoder>>
    /\ UNCHANGED <<activeDownloads, download, sources, totalProgress, totalSize,
                   destroyed, lastProgress, lastSize, lastProgressTimestamp,
                   files, now, title, reply>>

\* encoder.convert / encoder.merge settles: then / catch / finally
FinishPatch == [status |-> "finish", endTimestamp |-> now, destinationFile |-> destinationFile]
ErroredPatch == [status |-> "errored"]

\* Faulty variant: the temporary files are unlinked only after a success
OnEncoderSettled_KeepOnFailure(ok) ==
    /\ encoder = "pending"
    /\ encoder' = IF ok THEN "resolved" ELSE "rejected"
    /\ Update(IF ok THEN FinishPatch ELSE ErroredPatch)
    /\ files' = IF ok THEN UnlinkAll ELSE files
    /\ UNCHANGED <<activeDownloads, download, closure, sourceStreams, destroyed,
                   now, reply>>

\* Faulty variant: a rejected conversion is not reported
OnEncoderSettled_NoCatch(ok) ==
    /\ encoder = "pending"
    /\ encoder' = IF ok THEN "resolved" ELSE "rejected"
    /\ IF ok THEN Update(FinishPatch) ELSE pending' = pending
    /\ files' = UnlinkAll
    /\ UNCHANGED <<activeDownloads, download, closure, sourceStreams, destroyed,
                   now, reply>>

OnEncoderSettled(ok) ==
    /\ encoder = "pending"
    /\ encoder' = IF ok THEN "resolved" ELSE "rejected"
    /\ Update(IF ok THEN FinishPatch ELSE ErroredPatch)
    /\ files' = UnlinkAll
    /\ UNCHANGED <<activeDownloads, download, closure, sourceStreams, destroyed,
                   now, reply>>

\* Faulty variant: the error handler without the unlink of the temporary files
OnError_NoUnlink(i) ==
    /\ sourceStreams[i] = "flowing"
    /\ sourceStreams' = [j \in Streams |->
                            IF j = i THEN "failed" ELSE Destroy(sourceStreams[j], "")]
    /\ destroyed' = destroyed \cup (1..sources)
    /\ files' = files
    /\ Update(ErroredPatch)
    /\ UNCHANGED <<activeDownloads, download, closure, encoder, now, reply>>

\* Faulty variant: the error handler leaves the sibling streams running
OnError_NoDestroy(i) ==
    /\ sourceStreams[i] = "flowing"
    /\ sourceStreams' = [sourceStreams EXCEPT ![i] = "failed"]
    /\ destroyed' = destroyed \cup {i}
    /\ files' = UnlinkAll
    /\ IF UnlinkThrows THEN UNCHANGED pending ELSE Update(ErroredPatch)
    /\ UNCHANGED <<activeDownloads, download, closure, encoder, now, reply>>

\* sourceStream.on('error') with a cause other than 'cancelled'
OnError(i) ==
    /\ sourceStreams[i] = "flowing"
    /\ sourceStreams' = [j \in Streams |->
                            IF j = i THEN "failed" ELSE Destroy(sourceStreams[j], "")]
    /\ destroyed' = destroyed \cup (1..sources)
    /\ files' = UnlinkAll
    /\ IF UnlinkThrows THEN UNCHANGED pending ELSE Update(ErroredPatch)
    /\ UNCHANGED <<activeDownloads, download, closure, encoder, now, reply>>

\* Faulty variant: the error handler treats the 'cancelled' sentinel as a failure
OnCancelledError_AsFailure(i) ==
    /\ sourceStreams[i] = "cancelling"
    /\ sourceStreams' = [j \in Streams |->
                            IF j = i THEN "cancelled" ELSE Destroy(sourceStreams[j], "")]
    /\ destroyed' = destroyed \cup (1..sources)
    /\ files' = UnlinkAll
    /\ IF UnlinkThrows THEN UNCHANGED pending ELSE Update(ErroredPatch)
    /\ UNCHANGED <<activeDownloads, download, closure, encoder, now, reply>>

\* sourceStream.on('error') with the 'cancelled' sentinel of destroy('cancelled')
OnCancelledError(i) ==
    /\ sourceStreams[i] = "cancelling"
    /\ sourceStreams' = [sourceStreams EXCEPT ![i] = "cancelled"]
    /\ UNCHANGED <<activeDownloads, download, pending, closure, destroyed, files,
                   encoder, now, reply>>

\* activeDownloads[downloadId].cancel
CancelPatch == [status |-> "cancelled"]

Cancel ==
    /\ sourceStreams' = [j \in Streams |-> Destroy(sourceStreams[j], "cancelled")]
    /\ destroyed' = destroyed \cup (1..sources)
    /\ Update(CancelPatch)

\* Faulty variant: cancelDownload without the registry lookup
CancelDownload_NoLookup(id) ==
    /\ Cancel
    /\ reply' = [cmd |-> "cancelDownload", id |-> id, result |-> "ok"]
    /\ UNCHANGED <<activeDownloads, download, closure, files, encoder, now>>

\* cancelDownload
CancelDownload(id) ==
    /\ IF id \in activeDownloads
       THEN Cancel
       ELSE UNCHANGED <<sourceStreams, destroyed, pending>>
    /\ reply' = [cmd |-> "cancelDownload", id |-> id, result |-> "ok"]
    /\ UNCHANGED <<activeDownloads, download, closure, files, encoder, now>>

\* The throttling window elapses: the channel publishes the patch it holds.
Publish ==
    /\ pending # NoPatch
    /\ download' = Merge(download, pending)
    /\ pending' = NoPatch
    /\ UNCHANGED <<activeDownloads, closure, sourceStreams, destroyed, files,
                   encoder, now, reply>>

\* Wall-clock time passes.
Tick ==
    /\ now < MaxTime
    /\ now' = now + 1
    /\ UNCHANGED <<activeDownloads, download, pending, closure, sourceStreams,
                   destroyed, files, encoder, reply>>

Next ==
    \/ \E n \in 0..MaxStreams : StartDownload(n)
    \/ \E i \in Streams : StreamProgress(i)
    \/ \E i \in Streams : OnEnd(i)
    \/ \E ok \in BOOLEAN : OnEncoderSettled(ok)
    \/ \E i \in Streams : OnError(i)
    \/ \E i \in Streams : OnCancelledError(i)
    \/ \E id \in DownloadIds : CancelDownload(id)
    \/ Publish

Spec == Init /\ [][Next]_vars

\* The same program with wall-clock time advancing between events.
NextClock == Next \/ Tick
SpecClock == Init /\ [][NextClock]_vars

\* The program when every transferring stream eventually ends or fails, the
\* conversion eventually settles, the sentinel error of a destroyed stream is
\* delivered and the throttling window eventually elapses.
Fairness ==
    /\ \A i \in Streams : WF_vars(OnEnd(i) \/ OnError(i))
    /\ \A i \in Streams : WF_vars(OnCancelledError(i))
    /\ WF_vars(\E ok \in BOOLEAN : OnEncoderSettled(ok))
    /\ WF_vars(Publish)

FairSpec == Spec /\ Fairness

\* A one-stream download of a video with any title over Alphabet, up to the
\* end handler that builds the destination file name.
InitTitle ==
    /\ InitDownloads
    /\ title \in Titles

NextTitle == StartDownload(1) \/ OnEnd(1)
SpecTitle == InitTitle /\ [][NextTitle]_vars

\* ================================================================ claims
Terminal == {"finish", "errored", "cancelled"}

\* The cancel has taken full effect: it hit a stream that was still
\* transferring, `cancelled` is the status handed to the update channel and
\* every sentinel error was delivered.
CancelSettled ==
    /\ Status = "cancelled"
    /\ \E i \in 1..sources : sourceStreams[i] = "cancelled"
    /\ \A i \in 1..sources : sourceStreams[i] # "cancelling"

\* C1: once a cancel of a session in `progress` has taken effect (status
\* `cancelled`, every stream stopped), none of the session's temporary files
\* remains on disk.
C1_CancelRemovesTemporaryFiles == CancelSettled => files = {}

\* C2: in a session with more than one stream that is in `progress`, a stream
\* error other than `cancelled` makes `errored` the session's status, destroys
\* every stream of the session and leaves no temporary file on disk.
C2_Step ==
    \A i \in Streams :
        (sources > 1 /\ Status = "progress" /\ OnError(i))
           => /\ Status' = "errored"
              /\ destroyed' = 1..sources
              /\ \A j \in 1..sources : sourceStreams'[j] \notin {"flowing", "cancelling"}
              /\ files' = {}

C2_ErrorAbortsSession == [][C2_Step]_vars

\* A stream of a two-stream session failed after its sibling had ended, and
\* `errored` was published.
C2_Witness ==
    /\ sources > 1
    /\ \E i, j \in 1..sources : sourceStreams[i] = "failed" /\ sourceStreams[j] = "ended"
    /\ "status" \in DOMAIN download
    /\ download.status = "errored"
    /\ files = {}

\* C3: once the session's status is finish, errored or cancelled, no step
\* changes the status, hands a new patch to the update channel, destroys a
\* stream or unlinks a file.
C3_Step ==
    Status \in Terminal
       => /\ Status' = Status
          /\ pending' \in {pending, NoPatch}
          /\ destroyed' = destroyed
          /\ files' = files

C3_TerminalAbsorbing == [][C3_Step]_vars

\* C4: every patch that carries both progress and size, held by the channel
\* or published to the receiver, has progress <= size.
ProgressWithinSize(p) ==
    ("progress" \in DOMAIN p /\ "size" \in DOMAIN p) => p.progress <= p.size

C4_ProgressNeverExceedsSize == ProgressWithinSize(pending) /\ ProgressWithinSize(download)

\* Two streams; a published progress patch is followed by a sample whose
\* estimated size went down.
C4_Witness ==
    /\ sources = 2
    /\ "speed" \in DOMAIN pending
    /\ "status" \in DOMAIN download
    /\ download.progress > 0
    /\ pending.size < download.size
    /\ pending.progress = pending.size

\* C5: cancelDownload of a session whose status is not `progress` hands no
\* patch to the update channel and leaves the receiver's record unchanged.
C5_Step ==
    (Status # "progress" /\ CancelDownload(downloadId))
       => (pending' = pending /\ download' = download)

C5_CancelOnlyInProgress == [][C5_Step]_vars

\* C6: in a one-stream session whose stream ended and whose conversion did
\* not fail, the published status only ever changes from progress to convert
\* and from convert to finish.
C6_Step ==
    (/\ sources = 1
     /\ sourceStreams'[1] = "ended"
     /\ encoder' # "rejected"
     /\ "status" \in DOMAIN download
     /\ download'.status # download.status)
       => <<download.status, download'.status>>
             \in {<<"progress", "convert">>, <<"convert", "finish">>}

C6_ProgressConvertFinish == [][C6_Step]_vars

\* The session reached a terminal status and its clean-up ran.
CleanedUp ==
    /\ sources >= 1
    /\ Status \in Terminal
    /\ encoder # "pending"
    /\ files = {}
    /\ \A i \in Streams : sourceStreams[i] \notin {"flowing", "cancelling"}

\* C7: no id in the registry refers to a session that has reached a terminal
\* status with its clean-up done.
C7_RegistryHoldsOnlyLiveSessions ==
    \A id \in activeDownloads : ~(id = downloadId /\ CleanedUp)

\* C8: cancelDownload with an id that is not in the registry answers "ok" and
\* changes nothing else.
C8_Step ==
    \A id \in DownloadIds :
        (id \notin activeDownloads /\ CancelDownload(id))
           => /\ reply'.result = "ok"
              /\ UNCHANGED <<activeDownloads, download, pending, closure,
                             sourceStreams, destroyed, files, encoder>>

C8_CancelUnknownIsNoOp == [][C8_Step]_vars

\* cancelDownload of an unknown id was answered while the session was
\* transferring with a progress patch held by the channel.
C8_Witness ==
    /\ reply.cmd = "cancelDownload"
    /\ reply.id = unknownId
    /\ reply.result = "ok"
    /\ downloadId \in activeDownloads
    /\ \E i \in Streams : sourceStreams[i] = "flowing"
    /\ "speed" \in DOMAIN pending
    /\ totalProgress > 0

\* C9: every progress sample replaces the patch held by the channel by its
\* own progress, size and speed, so that the samples of one window collapse
\* to the last one; the receiver's record changes only when a window in which
\* the channel was handed a patch ends, once, to the patch then held.
C9_Sample(i, progress, size) ==
    /\ sourceStreams' = sourceStreams
    /\ lastProgress'[i] = progress
    /\ lastSize'[i] = size
    /\ OnProgress(i, progress, size)

C9_Step ==
    /\ \A i \in Streams : \A progress \in Bytes : \A size \in Bytes :
          C9_Sample(i, progress, size)
             => /\ pending'.progress = SumTo(lastProgress', sources)
                /\ pending'.size = SumTo(lastSize', sources)
                /\ pending'.speed =
                      (lastProgress[i] + progress) * (now - lastProgressTimestamp[i])
                /\ DOMAIN pending' = {"progress", "size", "speed"}
    /\ (download # NoPatch /\ download' # download)
          => /\ pending # NoPatch
             /\ \A k \in DOMAIN pending : download'[k] = pending[k]
             /\ \A k \in (DOMAIN download) \ (DOMAIN pending) : download'[k] = download[k]
             /\ pending' = NoPatch

ConvertCarriesTotalSize(p) ==
    ("status" \in DOMAIN p /\ p.status = "convert")
       => (p.size = SumTo(lastSize, sources) /\ p.progress = p.size)

C10_ConvertPublishesTotalSize ==
    ConvertCarriesTotalSize(pending) /\ ConvertCarriesTotalSize(download)

\* Two streams ended with sizes >= 1, one of them short of its size, and the
\* convert patch was published.
C10_Witness ==
    /\ sources = 2
    /\ "status" \in DOMAIN download
    /\ download.status = "convert"
    /\ lastSize[1] >= 1
    /\ lastSize[2] >= 1
    /\ totalProgress < totalSize
    /\ download.size = lastSize[1] + lastSize[2]
    /\ download.progress = download.size

\* C11: the title part of the destination file name contains none of the
\* characters / \ ? % * : | " < > and no two adjacent spaces, has a space
\* exactly where the title had a forbidden character or a run of them and of
\* spaces, is left unchanged by a second sanitization, and the title
\* "My//Video:  Part*1" gives "My Video Part 1".
NoAdjacentSpaces(t) == \A k \in 1..(Len(t) - 1) : ~(t[k] = " " /\ t[k+1] = " ")

\* The characters of t that are neither forbidden nor a space, in order.
Letters(t) == SelectSeq(t, LAMBDA c : c \notin Forbidden \cup {" "})

C11_TitleSanitized ==
    encoder # "idle"
       => /\ \A k \in 1..Len(filteredTitle) : filteredTitle[k] \notin Forbidden
          /\ NoAdjacentSpaces(filteredTitle)
          /\ Letters(filteredTitle) = Letters(title)
          /\ (\E k \in 1..Len(filteredTitle) : filteredTitle[k] = " ")
                <=> (\E k \in 1..Len(title) : title[k] \in Forbidden \cup {" "})
          /\ FilterTitle(filteredTitle) = filteredTitle
          /\ FilterTitle(ExampleTitle) = ExampleFiltered

\* A title with a forbidden character next to a space was sanitized to a
\* shorter title.
C11_Witness ==
    /\ encoder # "idle"
    /\ Len(title) = MaxTitleLen
    /\ \E k \in 1..(Len(title) - 1) : title[k] \in Forbidden /\ title[k+1] = " "
    /\ \E k \in 1..Len(title) : title[k] \notin Forbidden \cup {" "}
    /\ Len(filteredTitle) < Len(title)

\* C12: the conversion is running or has run exactly when every one of the
\* N >= 1 streams has ended, with done = N; it is started, together with the
\* hand-over of the convert patch, in one step from a state where it was
\* never started, as convert for one stream and as merge for more; once
\* started it is never started again.
AllEnded == sources >= 1 /\ \A i \in 1..sources : sourceStreams[i] = "ended"

C12_State ==
    /\ done = Cardinality({i \in 1..sources : sourceStreams[i] = "ended"})
    /\ (encoder # "idle") <=> AllEnded
    /\ (encoder # "idle") <=> (done = sources /\ sources >= 1)
    /\ (encoder # "idle") => operation = (IF sources = 1 THEN "convert" ELSE "merge")
    /\ (encoder = "idle") => operation = "none"

C12_Step ==
    /\ (encoder' = "pending" /\ encoder # "pending")
          => (encoder = "idle" /\ pending' = ConvertPatch /\ done' = sources)
    /\ (pending' # pending /\ "status" \in DOMAIN pending' /\ pending'.status = "convert")
          => (encoder = "idle" /\ encoder' = "pending")
    /\ (encoder # "idle") => (encoder' # "idle" /\ operation' = operation)
    /\ (encoder \in {"resolved", "rejected"}) => encoder' = encoder

C12_ConvertOnceWhenAllDone == [](C12_State) /\ [][C12_Step]_vars

\* A two-stream session whose merge was started by the second end and has
\* settled.
C12_Witness ==
    /\ sources = 2
    /\ done = 2
    /\ operation = "merge"
    /\ encoder = "resolved"

\* C13: while the conversion or merge runs every temporary file is still on
\* disk; the step in which it settles hands to the update channel the finish
\* patch with endTimestamp and destinationFile after a success and the
\* errored patch after a failure, and unlinks every temporary file in both
\* cases; no other step of a session whose streams all ended unlinks a file.
C13_State ==
    /\ encoder = "pending" => files = 1..sources
    /\ encoder \in {"resolved", "rejected"} => files = {}

C13_Step ==
    /\ (encoder = "pending" /\ encoder' = "resolved")
          => /\ pending' = [status |-> "finish", endTimestamp |-> now,
                            destinationFile |-> destinationFile]
             /\ files' = {}
    /\ (encoder = "pending" /\ encoder' = "rejected")
          => /\ pending' = [status |-> "errored"]
             /\ files' = {}
    /\ (encoder # "idle" /\ files' # files) => (encoder = "pending" /\ encoder' # "pending")

C13_EncoderOutcomeDecides == [](C13_State) /\ [][C13_Step]_vars

\* The merge of a two-stream session failed: errored was published and both
\* temporary files are gone.
C13_Witness ==
    /\ sources = 2
    /\ encoder = "rejected"
    /\ "status" \in DOMAIN download
    /\ download.status = "errored"
    /\ pending = NoPatch
    /\ files = {}

\* C14: in a session one of whose streams fired an error other than
\* `cancelled`, the conversion or merge was never started, and neither the
\* channel nor the receiver holds the status convert or finish.
SomeStreamFailed == \E i \in 1..sources : sourceStreams[i] = "failed"

C14_FailureAbortsSession ==
    SomeStreamFailed
       => /\ encoder = "idle"
          /\ operation = "none"
          /\ done < sources
          /\ Status \notin {"convert", "finish"}
          /\ download.status \notin {"convert", "finish"}
          /\ \A i \in 1..sources : sourceStreams[i] # "flowing"

\* The second stream of a two-stream session failed after the first had
\* ended; errored reached the receiver and no conversion was started.
C14_Witness ==
    /\ sources = 2
    /\ sourceStreams[1] = "ended"
    /\ sourceStreams[2] = "failed"
    /\ done = 1
    /\ download.status = "errored"
    /\ pending = NoPatch
    /\ encoder = "idle"

\* C15: in a session some stream of which was stopped by cancel, no stream
\* has failed, every stream stopped by the cancel gets the `cancelled`
\* sentinel and nothing else, the status handed to the update channel is
\* `cancelled`, and the receiver has seen nothing but progress and cancelled.
StoppedByCancel == {i \in 1..sources : sourceStreams[i] \in {"cancelling", "cancelled"}}

C15_State ==
    StoppedByCancel # {}
       => /\ ~SomeStreamFailed
          /\ \A i \in 1..sources : sourceStreams[i] \in {"cancelling", "cancelled", "ended"}
          /\ Status = "cancelled"
          /\ download.status \in {"progress", "cancelled"}
          /\ encoder = "idle"

C15_Step ==
    \A i \in Streams :
        (sourceStreams[i] = "cancelling" /\ sourceStreams'[i] # "cancelling")
           => (sourceStreams'[i] = "cancelled" /\ pending' = pending /\ files' = files)

C15_CancelIsNotAFailure == [](C15_State) /\ [][C15_Step]_vars

\* A cancel stopped the second stream of a two-stream session after the
\* first had ended; the sentinel was delivered and cancelled was published.
C15_Witness ==
    /\ sources = 2
    /\ sourceStreams[1] = "ended"
    /\ sourceStreams[2] = "cancelled"
    /\ download.status = "cancelled"
    /\ pending = NoPatch

\* C16: the running size total is the sum of the streams' most recently
\* reported sizes and the running progress total the sum of their most
\* recently reported progress; neither total is negative.
C16_TotalsAreSums ==
    /\ totalSize = SumTo(lastSize, sources)
    /\ totalProgress = SumTo(lastProgress, sources)
    /\ totalSize >= 0
    /\ totalProgress >= 0
    /\ \A i \in Streams : i > sources => (lastSize[i] = 0 /\ lastProgress[i] = 0)

\* Both streams of a session reported a size that was published and then a
\* smaller one: the size total went down to zero.
C16_Witness ==
    /\ sources = 2
    /\ \A i \in 1..sources : lastProgressTimestamp[i] # 0
    /\ download.size = 2
    /\ "speed" \in DOMAIN pending
    /\ pending.size = 0
    /\ totalSize = 0

\* C17: the speed handed over with a progress sample of a stream is the
\* difference between the sample's progress and the stream's previous
\* progress divided by the time elapsed since the stream's previous sample
\* (the model keeps the speed in quarter units, so four times that quotient);
\* for the first sample of a stream and when no time has elapsed it is a
\* number.
C17_Step ==
    \A i \in Streams : \A progress \in Bytes : \A size \in Bytes :
        C9_Sample(i, progress, size)
           => LET elapsed == now - lastProgressTimestamp[i]
              IN  IF elapsed = 0 \/ lastProgressTimestamp[i] = 0
                  THEN pending'.speed \in Int
                  ELSE pending'.speed * elapsed = 4 * (progress - lastProgress[i])

C17_SpeedIsDeltaOverElapsed == [][C17_Step]_vars

\* C18 (as stated): a started session with N >= 1 streams eventually shows a
\* terminal status to the receiver, and a session started with no stream
\* never leaves progress.
Started == downloadId \in activeDownloads

PublishedTerminal == Started /\ download.status \in Terminal

C18_AsStated ==
    /\ (Started /\ sources >= 1) ~> PublishedTerminal
    /\ [](Started /\ sources = 0 => Status = "progress")

\* C18 (amended): a started session with N >= 1 streams eventually shows a
\* terminal status to the receiver; a session started with no stream never
\* starts a conversion and has no status but progress and, after a
\* cancelDownload, cancelled.
C18_Terminates ==
    /\ (Started /\ sources >= 1) ~> PublishedTerminal
    /\ [](Started /\ sources = 0
            => /\ Status \in {"progress", "cancelled"}
               /\ download.status \in {"progress", "cancelled"}
               /\ encoder = "idle"
               /\ done = 0)

\* A session with no stream was cancelled and shows cancelled.
C18_Witness ==
    /\ Started
    /\ sources = 0
    /\ download.status = "cancelled"
    /\ pending = NoPatch

\* C19: a status patch (convert, finish, errored or cancelled) held by the
\* throttled update channel leaves the channel only by being published to the
\* receiver; no other patch of the session replaces it.
HoldsStatusPatch == "status" \in DOMAIN pending

C19_Step ==
    HoldsStatusPatch
       => \/ pending' = pending
          \/ /\ pending' = NoPatch
             /\ download' = Merge(download, pending)

C19_StatusPatchNeverDropped == [][C19_Step]_vars

\* C20: each temporary file is unlinked at most once: whenever a handler that
\* unlinks the temporary files can still run (a stream that can fail, a
\* conversion that can settle) every temporary file is on disk, the step of
\* such a handler finds them all and removes them all, and no other step
\* removes a file.
UnlinkingHandlerCanRun ==
    \/ encoder = "pending"
    \/ \E i \in 1..sources : sourceStreams[i] = "flowing"

C20_State == UnlinkingHandlerCanRun => files = 1..sources

C20_Step ==
    /\ \A i \in Streams : OnError(i) => (~UnlinkThrows /\ files' = {})
    /\ \A ok \in BOOLEAN : OnEncoderSettled(ok) => (~UnlinkThrows /\ files' = {})
    /\ files \ files' # {} => (files = 1..sources /\ files' = {})

====
